---- MODULE Spec2Model ----
(***************************************************************************)
(* Model of the edulog-pdf browser scripts: the shared EdulogApiService    *)
(* (URL parameters, session, cache, calculateAge) and the per-folder       *)
(* adapters (fetchData / processData / getFallbackData).                   *)
(*                                                                         *)
(* JavaScript values are modelled as tagged records of one fixed shape,    *)
(* strings as TLA+ strings that are really split, trimmed and parsed.      *)
(***************************************************************************)
EXTENDS Integers, Sequences, FiniteSets, TLC

VARIABLES
  today,      \* the clock: what new Date() returns, [y, m (1..12), d]
  birthIn,    \* SpecAge: the birthdate handed to calculateAge, as it was drawn
  ageResult,  \* SpecAge: the value calculateAge returned
  agePc,      \* SpecAge: "ready" before the call, "done" after it
  pAdapter,   \* SpecProcess: the adapter whose processData is called
  pApi,       \* SpecProcess: apiData, the basic record
  pAuth,      \* SpecProcess: authData, the session
  pTest,      \* SpecProcess: testResults
  pOut,       \* SpecProcess: the record processData returned
  pPc,        \* SpecProcess: "ready" before the call, "done" after it
  url,        \* window.location.search: [token, p_id], each a string or null
  cache,      \* apiService.cache: a Map from cache key to record
  cachedBy,   \* history: who stored each cache entry, for which parameters
  authData,   \* apiService.authData: the stored session, NoAuth when null
  procs,      \* the invocations in flight: position, locals, result
  slots,      \* the invocations the page may have in flight at once
  started,    \* how many invocations were started
  navs        \* how many times the URL parameters changed

ageVars == <<birthIn, ageResult, agePc>>

procVars == <<pAdapter, pApi, pAuth, pTest, pOut, pPc>>

pipeVars == <<url, cache, cachedBy, authData, procs, slots, started, navs>>

vars == <<today, ageVars, procVars, pipeVars>>

(***************************************************************************)
(* JavaScript values                                                       *)
(***************************************************************************)
Undef == [t |-> "undefined", n |-> 0, s |-> "", b |-> FALSE]

Null == [t |-> "null", n |-> 0, s |-> "", b |-> FALSE]

NaN == [t |-> "nan", n |-> 0, s |-> "", b |-> FALSE]

Num(i) == [t |-> "number", n |-> i, s |-> "", b |-> FALSE]

Str(x) == [t |-> "string", n |-> 0, s |-> x, b |-> FALSE]

Bool(x) == [t |-> "boolean", n |-> 0, s |-> "", b |-> x]

\* ToBoolean: what `if (v)`, `v ? a : b`, `v || w` and `!v` test
Truthy(v) ==
  CASE v.t = "undefined" -> FALSE
    [] v.t = "null" -> FALSE
    [] v.t = "nan" -> FALSE
    [] v.t = "number" -> v.n # 0
    [] v.t = "string" -> v.s # ""
    [] v.t = "boolean" -> v.b
    [] OTHER -> TRUE

\* a || b
Or(a, b) == IF Truthy(a) THEN a ELSE b

\* a - b on numbers, NaN when either side is NaN
Sub(a, b) == IF a.t = "number" /\ b.t = "number" THEN Num(a.n - b.n) ELSE NaN

\* a + b on numbers
Add(a, b) == IF a.t = "number" /\ b.t = "number" THEN Num(a.n + b.n) ELSE NaN

\* a < b: false when either side is NaN
Lt(a, b) == a.t = "number" /\ b.t = "number" /\ a.n < b.n

\* a === b on numbers: NaN equals nothing
NumEq(a, b) == a.t = "number" /\ b.t = "number" /\ a.n = b.n

(***************************************************************************)
(* Strings                                                                 *)
(***************************************************************************)
DigitChars == <<"0", "1", "2", "3", "4", "5", "6", "7", "8", "9">>

IsDigit(c) == \E i \in 1..10 : DigitChars[i] = c

DigitVal(c) == (CHOOSE i \in 1..10 : DigitChars[i] = c) - 1

RECURSIVE NatToStr(_)
NatToStr(n) ==
  IF n < 10 THEN DigitChars[n + 1]
  ELSE NatToStr(n \div 10) \o DigitChars[(n % 10) + 1]

\* String(n) of an integer
IntToStr(n) == IF n < 0 THEN "-" \o NatToStr(0 - n) ELSE NatToStr(n)

\* `${v}` of a number value
NumToStr(v) == IF v.t = "nan" THEN "NaN" ELSE IntToStr(v.n)

RECURSIVE Includes(_, _)
\* s.includes(c) for a one-character c
Includes(s, c) ==
  IF Len(s) = 0 THEN FALSE
  ELSE IF Head(s) = c THEN TRUE
  ELSE Includes(Tail(s), c)

RECURSIVE SplitFrom(_, _, _)
\* the pieces of s after a piece `cur` that is still being read
SplitFrom(s, c, cur) ==
  IF Len(s) = 0 THEN <<cur>>
  ELSE IF Head(s) = c THEN <<cur>> \o SplitFrom(Tail(s), c, "")
  ELSE SplitFrom(Tail(s), c, cur \o Head(s))

\* s.split(c) for a one-character separator c
Split(s, c) == SplitFrom(s, c, "")

RECURSIVE TrimStart(_)
TrimStart(s) ==
  IF Len(s) > 0 /\ Head(s) = " " THEN TrimStart(Tail(s)) ELSE s

RECURSIVE TrimEnd(_)
TrimEnd(s) ==
  IF Len(s) > 0 /\ SubSeq(s, Len(s), Len(s)) = " "
  THEN TrimEnd(SubSeq(s, 1, Len(s) - 1)) ELSE s

\* s.trim()
Trim(s) == TrimEnd(TrimStart(s))

RECURSIVE DigitsPrefix(_, _, _)
\* the value of the leading digits of s; `seen` tells whether one was read
DigitsPrefix(s, acc, seen) ==
  IF Len(s) > 0 /\ IsDigit(Head(s))
  THEN DigitsPrefix(Tail(s), 10 * acc + DigitVal(Head(s)), TRUE)
  ELSE IF seen THEN Num(acc) ELSE NaN

\* parseInt(s, 10): leading blanks, an optional sign, then digits; NaN if none
ParseInt(s) ==
  LET u == TrimStart(s) IN
  IF Len(u) > 0 /\ Head(u) = "-"
  THEN LET r == DigitsPrefix(Tail(u), 0, FALSE) IN
       IF r.t = "number" THEN Num(0 - r.n) ELSE NaN
  ELSE IF Len(u) > 0 /\ Head(u) = "+" THEN DigitsPrefix(Tail(u), 0, FALSE)
  ELSE DigitsPrefix(u, 0, FALSE)

RECURSIVE AllDigits(_)
AllDigits(s) == Len(s) = 0 \/ (IsDigit(Head(s)) /\ AllDigits(Tail(s)))

(***************************************************************************)
(* Dates                                                                   *)
(***************************************************************************)
IsLeap(y) == (y % 4 = 0 /\ y % 100 # 0) \/ y % 400 = 0

\* days of month m (1..12) of year y
DaysInMonth(y, m) ==
  IF m = 2 THEN (IF IsLeap(y) THEN 29 ELSE 28)
  ELSE IF m \in {4, 6, 9, 11} THEN 30 ELSE 31

InvalidDate == [valid |-> FALSE, y |-> 0, m |-> 0, d |-> 0]

RECURSIVE RollDays(_, _, _)
\* day d counted from month m (0-based) of year y, carried into the calendar
RollDays(y, m, d) ==
  IF d > DaysInMonth(y, m + 1)
  THEN RollDays(IF m = 11 THEN y + 1 ELSE y, IF m = 11 THEN 0 ELSE m + 1,
                d - DaysInMonth(y, m + 1))
  ELSE IF d < 1
  THEN LET py == IF m = 0 THEN y - 1 ELSE y
           pm == IF m = 0 THEN 11 ELSE m - 1
       IN RollDays(py, pm, d + DaysInMonth(py, pm + 1))
  ELSE [valid |-> TRUE, y |-> y, m |-> m, d |-> d]

\* floor(a / 12) and a mod 12 for any integer a
FloorDiv12(a) == IF a >= 0 THEN a \div 12 ELSE 0 - ((11 - a) \div 12)

\* new Date(year, monthIndex, day): NaN gives an Invalid Date, years 0..99
\* mean 1900..1999, months and days out of range carry over
NewDateYMD(year, month, day) ==
  IF year.t # "number" \/ month.t # "number" \/ day.t # "number"
  THEN InvalidDate
  ELSE LET fy == IF year.n >= 0 /\ year.n <= 99 THEN 1900 + year.n ELSE year.n
           cy == fy + FloorDiv12(month.n)
           cm == month.n - 12 * FloorDiv12(month.n)
       IN RollDays(cy, cm, day.n)

\* whether s is an ISO calendar date YYYY-MM-DD
IsIsoDate(s) ==
  LET p == Split(s, "-") IN
  /\ Len(p) = 3
  /\ Len(p[1]) = 4 /\ Len(p[2]) = 2 /\ Len(p[3]) = 2
  /\ AllDigits(p[1]) /\ AllDigits(p[2]) /\ AllDigits(p[3])
  /\ ParseInt(p[2]).n \in 1..12
  /\ ParseInt(p[3]).n \in 1..DaysInMonth(ParseInt(p[1]).n, ParseInt(p[2]).n)

\* new Date(string): an ISO date is read as that calendar day (a local time
\* zone at or east of UTC), any other text of the input sets is an Invalid Date
NewDateStr(s) ==
  IF IsIsoDate(s)
  THEN LET p == Split(s, "-") IN
       [valid |-> TRUE, y |-> ParseInt(p[1]).n, m |-> ParseInt(p[2]).n - 1,
        d |-> ParseInt(p[3]).n]
  ELSE InvalidDate

\* date.getFullYear(), getMonth() (0-based), getDate(): NaN of an Invalid Date
GetFullYear(dt) == IF dt.valid THEN Num(dt.y) ELSE NaN

GetMonth(dt) == IF dt.valid THEN Num(dt.m) ELSE NaN

GetDate(dt) == IF dt.valid THEN Num(dt.d) ELSE NaN

\* new Date(): the clock
Now == [valid |-> TRUE, y |-> today.y, m |-> today.m - 1, d |-> today.d]

\* new Date().toLocaleDateString('de-DE'): d.m.yyyy without padding
LocaleDateString == IntToStr(today.d) \o "." \o IntToStr(today.m) \o "." \o IntToStr(today.y)

(***************************************************************************)
(* EdulogApiService.calculateAge                                           *)
(***************************************************************************)
\* the Date the birthdate string is read as: DD/MM/YYYY when it has exactly
\* three slash-separated parts, otherwise whatever new Date(string) makes of it
ParseBirth(s) ==
  IF Includes(s, "/")
  THEN LET parts == Split(s, "/") IN
       IF Len(parts) = 3
       THEN LET day == ParseInt(parts[1])
                month == Sub(ParseInt(parts[2]), Num(1))
                year == ParseInt(parts[3])
            IN NewDateYMD(year, month, day)
       ELSE NewDateStr(s)
  ELSE NewDateStr(s)

\* full years between birth and now, one less before this year's birthday
FullYears(now, birth) ==
  LET age == Sub(GetFullYear(now), GetFullYear(birth))
      monthDiff == Sub(GetMonth(now), GetMonth(birth))
  IN IF Lt(monthDiff, Num(0))
        \/ (NumEq(monthDiff, Num(0)) /\ Lt(GetDate(now), GetDate(birth)))
     THEN Sub(age, Num(1)) ELSE age

\* the same without the step back when the day of the month is not reached
MonthsSinceBirthdayNoDayStep(now, birth) ==
  LET diff == Sub(GetMonth(now), GetMonth(birth)) IN
  IF Lt(diff, Num(0)) THEN Add(diff, Num(12)) ELSE diff

\* months since the last birthday
MonthsSinceBirthday(now, birth) ==
  LET diff == Sub(GetMonth(now), GetMonth(birth))
      wrapped == IF Lt(diff, Num(0)) THEN Add(diff, Num(12)) ELSE diff
  IN IF Lt(GetDate(now), GetDate(birth))
     THEN LET less == Sub(wrapped, Num(1)) IN
          IF Lt(less, Num(0)) THEN Num(11) ELSE less
     ELSE wrapped

\* `${age},${monthsSinceBirthday}`
AgeText(now, birth) ==
  Str(NumToStr(FullYears(now, birth)) \o "," \o NumToStr(MonthsSinceBirthday(now, birth)))

\* calculateAge(birthdate): null for a falsy argument; "0,0" when the body
\* throws, which it does only when birthdate has no includes method (a number
\* or a boolean); otherwise `${age},${monthsSinceBirthday}`
calculateAge(bd) ==
  IF ~Truthy(bd) THEN Null
  ELSE IF bd.t # "string" THEN Str("0,0")
  ELSE AgeText(Now, ParseBirth(bd.s))

(***************************************************************************)
(* Objects, conversions                                                    *)
(***************************************************************************)
\* o.k of an object given as a function from its own keys: undefined when
\* the key is absent
Get(o, k) == IF k \in DOMAIN o THEN o[k] ELSE Undef

\* Number(text): blank is 0, an optionally signed run of digits its value,
\* anything else NaN
StringToNumber(s) ==
  LET u == Trim(s)
      body == IF Len(u) > 0 /\ Head(u) \in {"-", "+"} THEN Tail(u) ELSE u
  IN IF Len(u) = 0 THEN Num(0)
     ELSE IF Len(body) > 0 /\ AllDigits(body) THEN ParseInt(u)
     ELSE NaN

\* Number(v)
ToNumber(v) ==
  CASE v.t = "undefined" -> NaN
    [] v.t = "null" -> Num(0)
    [] v.t = "nan" -> NaN
    [] v.t = "number" -> v
    [] v.t = "boolean" -> IF v.b THEN Num(1) ELSE Num(0)
    [] v.t = "string" -> StringToNumber(v.s)

\* `${v}` of a value
ToStr(v) ==
  CASE v.t = "undefined" -> "undefined"
    [] v.t = "null" -> "null"
    [] v.t = "nan" -> "NaN"
    [] v.t = "number" -> IntToStr(v.n)
    [] v.t = "boolean" -> IF v.b THEN "true" ELSE "false"
    [] v.t = "string" -> v.s

(***************************************************************************)
(* The adapters                                                            *)
(***************************************************************************)
Adapters == {"aMerkfaehigkeit", "mZeichnen", "figurGrundS", "arbeitsBlaetter"}

ScoringAdapters == {"aMerkfaehigkeit", "mZeichnen", "figurGrundS"}

\* the category each scoring adapter filters the thresholds by; the source's
\* literal for aMerkfaehigkeit holds the bytes of a twice-encoded a-umlaut,
\* written here as A~x
CategoryOf(a) ==
  CASE a = "aMerkfaehigkeit" -> "Auditive MerkfA~xhigkeit"
    [] a = "mZeichnen" -> "Mensch Zeichnen"
    [] a = "figurGrundS" -> "Figur Grund Sehen"
    [] OTHER -> ""

greenColor == Str("#d5f5d5")

redColor == Str("#ffcccc")

\* the company name with the private customer asked first
CompanyNameCustomerFirst(auth) ==
  IF ~auth.present THEN Str("")
  ELSE IF auth.privat_kunde.present /\ Truthy(auth.privat_kunde.name)
  THEN auth.privat_kunde.name
  ELSE IF auth.einrichtung.present /\ Truthy(auth.einrichtung.name)
  THEN auth.einrichtung.name
  ELSE Str("")

\* let companyName = '' and the einrichtung / privat_kunde precedence
CompanyName(auth) ==
  IF ~auth.present THEN Str("")
  ELSE IF auth.einrichtung.present /\ Truthy(auth.einrichtung.name)
  THEN auth.einrichtung.name
  ELSE IF auth.privat_kunde.present /\ Truthy(auth.privat_kunde.name)
  THEN auth.privat_kunde.name
  ELSE Str("")

\* stadt of the party the company name was taken from
Stadt(auth) ==
  IF ~auth.present THEN Str("")
  ELSE IF auth.einrichtung.present /\ Truthy(auth.einrichtung.name)
  THEN Or(auth.einrichtung.stadt, Str(""))
  ELSE IF auth.privat_kunde.present /\ Truthy(auth.privat_kunde.name)
  THEN Or(auth.privat_kunde.stadt, Str(""))
  ELSE Str("")

\* `${apiData.Vorname || ''} ${apiData.Nachname || ''}`.trim() || ''
FullName(apiData) ==
  Or(Str(Trim(ToStr(Or(Get(apiData, "Vorname"), Str(""))) \o " "
              \o ToStr(Or(Get(apiData, "Nachname"), Str(""))))),
     Str(""))

\* one entry of the colors list: a token, or an object with a color field
ColorToken(x) == [t |-> "string", s |-> x, color |-> Undef]

\* colorObj => typeof colorObj === 'object' && colorObj.color ? colorObj.color : colorObj
MapColor(c) ==
  IF c.t = "object" /\ Truthy(c.color) THEN ColorToken(ToStr(c.color)) ELSE c

TrimToken(x) == ColorToken(Trim(x))

\* the colors block of processData
ExtractColors(auth) ==
  IF ~(auth.present /\ auth.parameters.present) THEN <<>>
  ELSE LET c == auth.parameters.colors IN
       IF c.t = "array" THEN [i \in DOMAIN c.items |-> MapColor(c.items[i])]
       ELSE IF c.t = "string" /\ c.s # ""
       THEN LET tokens == Split(c.s, ",") IN
            [i \in DOMAIN tokens |-> TrimToken(tokens[i])]
       ELSE <<>>

RECURSIVE FilterCategory(_, _)
\* thresholds.filter(threshold => threshold.category === cat)
FilterCategory(q, cat) ==
  IF q = <<>> THEN <<>>
  ELSE IF Head(q).category = cat
  THEN <<Head(q)>> \o FilterCategory(Tail(q), cat)
  ELSE FilterCategory(Tail(q), cat)

\* a.level - b.level <= 0, a NaN difference counting as 0
LevelLeq(a, b) ==
  LET diff == Sub(ToNumber(a.level), ToNumber(b.level)) IN
  diff.t # "number" \/ diff.n <= 0

RECURSIVE InsertByLevel(_, _)
\* x put behind every entry of the sorted q that does not come after it
InsertByLevel(x, q) ==
  IF q = <<>> THEN <<x>>
  ELSE IF LevelLeq(Head(q), x) THEN <<Head(q)>> \o InsertByLevel(x, Tail(q))
  ELSE <<x>> \o q

RECURSIVE SortFrom(_, _)
SortFrom(q, sorted) ==
  IF q = <<>> THEN sorted ELSE SortFrom(Tail(q), InsertByLevel(Head(q), sorted))

\* the same without sorting: the entries in the order of the session's list
SortByLevelUnsorted(q) == q

\* array.sort((a, b) => a.level - b.level): stable, ascending by level
SortByLevel(q) == SortFrom(q, <<>>)

\* Number(x) || 0
NumberOrZero(v) == Or(ToNumber(v), Num(0))

\* a band that leaves its upper end out
InBandUpperExclusive(score, th) ==
  LET lo == NumberOrZero(th.min)
      hi == NumberOrZero(th.max)
  IN score.t = "number" /\ score.n >= lo.n /\ score.n < hi.n

\* score >= thresholdMin && score <= thresholdMax, both ends included
InBand(score, th) ==
  LET lo == NumberOrZero(th.min)
      hi == NumberOrZero(th.max)
  IN score.t = "number" /\ score.n >= lo.n /\ score.n <= hi.n

RECURSIVE FindBand(_, _)
\* sortedThresholds.find(...): the first entry whose band holds the score, as
\* a list of at most one entry
FindBand(q, score) ==
  IF q = <<>> THEN <<>>
  ELSE IF InBand(score, Head(q)) THEN <<Head(q)>>
  ELSE FindBand(Tail(q), score)

RECURSIVE FindLevel(_, _)
\* sortedThresholds.find(t => t.level === n), as a list of at most one entry
FindLevel(q, n) ==
  IF q = <<>> THEN <<>>
  ELSE IF Head(q).level = Num(n) THEN <<Head(q)>>
  ELSE FindLevel(Tail(q), n)

\* testResults && testResults.<score field> ? Number(testResults.<score field>) : 0
ScoreNumber(tr) ==
  IF tr.present /\ Truthy(tr.score) THEN ToNumber(tr.score) ELSE Num(0)

\* testResults && testResults.<score field> ? testResults.<score field> : 0
ScoreField(tr) ==
  IF tr.present /\ Truthy(tr.score) THEN tr.score ELSE Num(0)

RangeOf(th) == [start |-> NumberOrZero(th.min), end |-> NumberOrZero(th.max)]

\* the thresholds of the adapter's category, or none when the session has no
\* parameters or no edulog_thresholds
CategoryThresholds(a, auth) ==
  IF auth.present /\ auth.parameters.present /\ auth.parameters.hasThresholds
  THEN FilterCategory(auth.parameters.edulog_thresholds, CategoryOf(a))
  ELSE <<>>

\* the body of `if (thresholds.length >= 6)` on the list sorted by level: min
\* of level 1, max of level 6, one range per entry, the text of the first band
\* holding the score
ResolveSorted(sortedThresholds, score) ==
  LET level1 == FindLevel(sortedThresholds, 1)
      level6 == FindLevel(sortedThresholds, 6)
      matching == FindBand(sortedThresholds, score)
  IN [min |-> IF level1 # <<>> /\ level1[1].min # Undef
              THEN ToNumber(level1[1].min) ELSE Num(0),
      max |-> IF level6 # <<>> /\ level6[1].max # Undef
              THEN ToNumber(level6[1].max) ELSE Num(13),
      ranges |-> [i \in DOMAIN sortedThresholds |-> RangeOf(sortedThresholds[i])],
      assessment |-> IF matching # <<>> /\ Truthy(matching[1].description2)
                     THEN matching[1].description2 ELSE Str("")]

\* the same without the test for six entries
ResolveThresholdsNoCountTest(thresholds, tr) ==
  ResolveSorted(SortByLevel(thresholds), ScoreNumber(tr))

\* the edulog_thresholds block of processData on the thresholds of the
\* adapter's category: min, max, ranges, assessment
ResolveThresholds(thresholds, tr) ==
  IF Len(thresholds) >= 6
  THEN ResolveSorted(SortByLevel(thresholds), ScoreNumber(tr))
  ELSE [min |-> Num(0), max |-> Num(13), ranges |-> <<>>,
        assessment |-> Str("")]

\* testResults && testResults.items && testResults.items.length > 0
HasItems(tr) == tr.present /\ tr.items.t = "array" /\ Len(tr.items.list) > 0

\* value === true ? green : value === false ? red : ''
CellColor(value) ==
  IF value = Bool(TRUE) THEN greenColor
  ELSE IF value = Bool(FALSE) THEN redColor
  ELSE Str("")

\* the twelve cells c1..c12 of aMerkfaehigkeit; c9 is always null
CellMappings(firstItem) ==
  <<Get(firstItem, "identifikationOK"), Get(firstItem, "items2ok"),
    Get(firstItem, "items2_v1"), Get(firstItem, "items2_v2"),
    Get(firstItem, "vor"), Get(firstItem, "items3ok"),
    Get(firstItem, "items3_v1"), Get(firstItem, "items3_v2"),
    Null, Get(firstItem, "items4ok"),
    Get(firstItem, "items4_v1"), Get(firstItem, "items4_v2")>>

\* cellColors of aMerkfaehigkeit
CellColors(tr) ==
  IF HasItems(tr)
  THEN LET cellMappings == CellMappings(tr.items.list[1]) IN
       [i \in DOMAIN cellMappings |-> CellColor(cellMappings[i])]
  ELSE <<>>

\* value ? green : (value === false ? red : '')
ItemColor(value) ==
  IF Truthy(value) THEN greenColor
  ELSE IF value = Bool(FALSE) THEN redColor
  ELSE Str("")

\* itemColors of figurGrundS: eight keys when there is a first item, no key
\* otherwise
ItemColors(tr) ==
  IF HasItems(tr)
  THEN LET firstItem == tr.items.list[1] IN
       [kuh |-> ItemColor(Get(firstItem, "richtigKuh")),
        ente |-> ItemColor(Get(firstItem, "richtigEnte")),
        kreis |-> ItemColor(Get(firstItem, "richtigKreis")),
        dreieck |-> ItemColor(Get(firstItem, "richtigDreieck")),
        auto |-> ItemColor(Get(firstItem, "richtigAuto")),
        haus |-> ItemColor(Get(firstItem, "richtigHaus")),
        baum |-> ItemColor(Get(firstItem, "richtigBaum")),
        lampe |-> ItemColor(Get(firstItem, "richtigLampe"))]
  ELSE <<>>

\* {...earlier, ...later}: a key of both takes the later value
Spread(earlier, later) == later @@ earlier

\* the fields the three scoring adapters share, th being what the
\* edulog_thresholds block left in min, max, ranges and assessment
ScoringFields(apiData, auth, tr, th) ==
  [name |-> FullName(apiData),
   lang |-> Or(Get(apiData, "Familiensprache"), Str("")),
   birthdate |-> Or(Get(apiData, "GeburtsDatum"), Str("")),
   age |-> Or(calculateAge(Get(apiData, "GeburtsDatum")), Str("")),
   since |-> Get(apiData, "InDEseit"),
   date |-> Str(LocaleDateString),
   company |-> CompanyName(auth),
   testResults |-> tr,
   min |-> th.min,
   max |-> th.max,
   score |-> ScoreField(tr),
   colors |-> ExtractColors(auth),
   ranges |-> th.ranges,
   assessment |-> th.assessment,
   label1 |-> Str("UNKNOWN"),
   label2 |-> Str("UNKNOWN"),
   label3 |-> Str("UNKNOWN"),
   label4 |-> Str("UNKNOWN"),
   subsplit |-> Str("UNKNOWN"),
   submin |-> th.min,
   submax |-> th.max]

ScoringRecord(a, apiData, auth, tr) ==
  ScoringFields(apiData, auth, tr,
                ResolveThresholds(CategoryThresholds(a, auth), tr))

\* the fields an adapter has of its own
OwnFields(a, apiData, tr) ==
  CASE a = "aMerkfaehigkeit" ->
         [teacher |-> Or(Get(apiData, "authuser_name"), Str("")),
          subgray |-> Str("UNKNOWN"),
          subgreen |-> Str("UNKNOWN"),
          cellColors |-> CellColors(tr)]
    [] a = "figurGrundS" -> ItemColors(tr)
    [] OTHER -> <<>>

\* the session as a sort of its own thresholds list would leave it
SessionAfterSortedInPlace(a, auth) ==
  IF auth.present /\ auth.parameters.present /\ auth.parameters.hasThresholds
  THEN [auth EXCEPT !.parameters.edulog_thresholds = SortByLevel(@)]
  ELSE auth

\* the session object after processData: filter() and map() return new
\* arrays and sort() reorders the array filter() returned, so no field of the
\* session and no list of it is written
SessionAfter(a, auth) == auth

\* processData(apiData, authData, testResults) of each adapter
processData(a, apiData, auth, tr) ==
  IF a = "arbeitsBlaetter"
  THEN [name |-> FullName(apiData),
        birthdate |-> Or(Get(apiData, "GeburtsDatum"), Str("")),
        age |-> Or(calculateAge(Get(apiData, "GeburtsDatum")), Str("")),
        since |-> Or(Get(apiData, "InDEseit"), Str("")),
        date |-> Str(LocaleDateString),
        company |-> CompanyName(auth),
        stadt |-> Stadt(auth)]
  ELSE Spread(ScoringRecord(a, apiData, auth, tr), OwnFields(a, apiData, tr))

\* testResults: null
NoTestResults ==
  [present |-> FALSE, score |-> Undef, items |-> [t |-> "undefined", list |-> <<>>]]

\* the fields the fallback records of the three scoring adapters share
ScoringFallback ==
  [name |-> Str(""),
   lang |-> Str(""),
   birthdate |-> Str(""),
   age |-> Str(""),
   since |-> Str(""),
   date |-> Str(LocaleDateString),
   company |-> Str(""),
   testResults |-> NoTestResults,
   min |-> Num(0),
   max |-> Num(13),
   score |-> Num(0),
   colors |-> <<>>,
   ranges |-> <<>>,
   assessment |-> Str(""),
   label1 |-> Str(""),
   label2 |-> Str(""),
   label3 |-> Str(""),
   label4 |-> Str(""),
   subsplit |-> Num(50),
   submin |-> Num(0),
   submax |-> Num(13)]

\* getFallbackData() of each adapter
getFallbackData(a) ==
  CASE a = "aMerkfaehigkeit" ->
         Spread(ScoringFallback,
                [teacher |-> Str(""), subgray |-> Str(""), subgreen |-> Str(""),
                 cellColors |-> <<>>])
    [] a = "mZeichnen" -> ScoringFallback
    [] a = "figurGrundS" ->
         Spread(ScoringFallback,
                [kuh |-> Str(""), ente |-> Str(""), kreis |-> Str(""),
                 dreieck |-> Str(""), auto |-> Str(""), haus |-> Str(""),
                 baum |-> Str(""), lampe |-> Str("")])
    [] a = "arbeitsBlaetter" ->
         [name |-> Str(""), birthdate |-> Str(""), age |-> Str(""),
          since |-> Str(""), date |-> Str(LocaleDateString),
          company |-> Str(""), stadt |-> Str("")]

(***************************************************************************)
(* The shared service: processApiData, getFallbackData                     *)
(***************************************************************************)
DefaultColors ==
  <<ColorToken("#ed1b06"), ColorToken("#ff7801"), ColorToken("#fcc709"),
    ColorToken("#fff15e"), ColorToken("#c1ef4a"), ColorToken("#79e607")>>

DefaultRanges ==
  <<[start |-> Num(0), end |-> Num(3)], [start |-> Num(4), end |-> Num(5)],
    [start |-> Num(6), end |-> Num(6)], [start |-> Num(7), end |-> Num(8)],
    [start |-> Num(9), end |-> Num(10)], [start |-> Num(11), end |-> Num(11)]>>

\* parseColors(v) || default: a non-empty text is split at commas and trimmed;
\* nothing, or a value without split (the call throws, null), gives the default
ParseColorsOrDefault(v) ==
  IF Truthy(v) /\ v.t = "string"
  THEN LET tokens == Split(v.s, ",") IN
       [i \in DOMAIN tokens |-> TrimToken(tokens[i])]
  ELSE DefaultColors

\* one piece of the ranges text: "a-b" or a single number
ParseRange(piece) ==
  IF Includes(piece, "-")
  THEN LET ends == Split(piece, "-") IN
       [start |-> ToNumber(Str(ends[1])), end |-> ToNumber(Str(ends[2]))]
  ELSE [start |-> ToNumber(Str(piece)), end |-> ToNumber(Str(piece))]

\* parseRanges(v) || default
ParseRangesOrDefault(v) ==
  IF Truthy(v) /\ v.t = "string"
  THEN LET pieces == Split(v.s, ",") IN
       [i \in DOMAIN pieces |-> ParseRange(pieces[i])]
  ELSE DefaultRanges

\* the fields processApiData writes before `...apiData`
NormalizedFields(apiData, auth) ==
    [name |-> FullName(apiData),
     birthdate |-> Or(Get(apiData, "GeburtsDatum"), Str("")),
     age |-> Or(calculateAge(Get(apiData, "GeburtsDatum")), Str("")),
     language |-> Or(Get(apiData, "Familiensprache"), Str("")),
     since |-> Or(Get(apiData, "InDEseit"), Str("")),
     date |-> Str(LocaleDateString),
     teacher |-> Or(Get(apiData, "authuser_name"), Str("")),
     company |-> CompanyName(auth),
     stadt |-> Stadt(auth),
     assessment |-> Or(Get(apiData, "Beurteilung"), Str("")),
     min |-> Or(ToNumber(Get(apiData, "min")), Num(0)),
     max |-> Or(ToNumber(Get(apiData, "max")), Num(13)),
     score |-> Or(ToNumber(Get(apiData, "score")), Num(0)),
     colors |-> ParseColorsOrDefault(Get(apiData, "colors")),
     ranges |-> ParseRangesOrDefault(Get(apiData, "ranges")),
     label1 |-> Or(Get(apiData, "label1"), Str("stark auffaellig")),
     label2 |-> Or(Get(apiData, "label2"), Str("auffaellig")),
     label3 |-> Or(Get(apiData, "label3"), Str("unauffaellig")),
     label4 |-> Or(Get(apiData, "label4"), Str("besonders unauffaellig")),
     subsplit |-> Or(ToNumber(Get(apiData, "subsplit")), Num(50)),
     submin |-> Or(ToNumber(Get(apiData, "submin")), Num(0)),
     submax |-> Or(ToNumber(Get(apiData, "submax")), Num(13)),
     subgray |-> Or(Get(apiData, "subgray"),
                    Str("Weiterfuehrende Fachdiagnostik empfohlen")),
     subgreen |-> Or(Get(apiData, "subgreen"), Str("Normbereich"))]

\* processApiData(apiData, authData) of the shared service: the normalized
\* fields, then `...apiData`
processApiData(apiData, auth) == Spread(NormalizedFields(apiData, auth), apiData)

\* getFallbackData() of the shared service
ServiceFallback ==
  [name |-> Str(""),
   birthdate |-> Str(""),
   age |-> Str(""),
   language |-> Str(""),
   since |-> Str(""),
   date |-> Str(LocaleDateString),
   teacher |-> Str(""),
   company |-> Str(""),
   assessment |-> Str(""),
   min |-> Num(0),
   max |-> Num(13),
   score |-> Num(0),
   colors |-> DefaultColors,
   ranges |-> DefaultRanges,
   label1 |-> Str("stark auffaellig"),
   label2 |-> Str("auffaellig"),
   label3 |-> Str("unauffaellig"),
   label4 |-> Str("besonders unauffaellig"),
   subsplit |-> Num(50),
   submin |-> Num(0),
   submax |-> Num(13),
   subgray |-> Str("Weiterfuehrende Fachdiagnostik empfohlen"),
   subgreen |-> Str("Normbereich")]

(***************************************************************************)
(* Inputs of processData: sessions, basic records, test results            *)
(***************************************************************************)
NoParty == [present |-> FALSE, id |-> Undef, name |-> Undef, stadt |-> Undef]

NoColors == [t |-> "undefined", items |-> <<>>, s |-> ""]

NoParameters ==
  [present |-> FALSE, colors |-> NoColors, hasThresholds |-> FALSE,
   edulog_thresholds |-> <<>>]

\* authData = null
NoAuth ==
  [present |-> FALSE, einrichtung |-> NoParty, privat_kunde |-> NoParty,
   parameters |-> NoParameters, token |-> "", p_id |-> ""]

MaxStretch == 2

MaxMatching == 7

MaxOrder == 2

MaxScore == 13

MaxPattern == 5

\* the bands of the service's default ranges
BaseStart == <<0, 4, 6, 7, 9, 11>>

BaseEnd == <<3, 5, 6, 8, 10, 11>>

LevelTexts ==
  <<"stark auffaellig", "auffaellig", "grenzwertig", "unauffaellig",
    "gut", "besonders gut">>

\* the i-th threshold of a list: level ((i - 1) mod 6) + 1, its band widened
\* upwards by `stretch`, of the adapter's category when i <= count and of
\* another category otherwise; an entry past the sixth repeats a level with
\* a text of its own
ThresholdAt(a, i, stretch, count) ==
  LET lv == ((i - 1) % 6) + 1 IN
  [category |-> IF i <= count THEN CategoryOf(a) ELSE "Andere Kategorie",
   level |-> Num(lv),
   min |-> Num(BaseStart[lv]),
   max |-> Num(BaseEnd[lv] + stretch),
   description2 |-> Str(IF i <= 6 THEN LevelTexts[lv]
                        ELSE LevelTexts[lv] \o " (2)")]

Reverse(q) == [i \in 1..Len(q) |-> q[Len(q) + 1 - i]]

Rotate(q, k) == [i \in 1..Len(q) |-> q[((i - 1 + k) % Len(q)) + 1]]

\* the order the session lists its thresholds in
Arrange(q, o) ==
  IF o % 2 = 1 THEN Reverse(Rotate(q, o \div 2)) ELSE Rotate(q, o \div 2)

ThresholdList(a, stretch, count, o) ==
  Arrange([i \in 1..(IF count > 6 THEN count ELSE 6) |->
             ThresholdAt(a, i, stretch, count)], o)

ColorObject(c) == [t |-> "object", s |-> "", color |-> c]

ColorInputs ==
  {NoColors,
   [t |-> "array", s |-> "",
    items |-> <<ColorToken("#ed1b06"), ColorToken("#ff7801"),
                ColorToken("#fcc709"), ColorToken("#fff15e"),
                ColorToken("#c1ef4a"), ColorToken("#79e607")>>],
   [t |-> "array", s |-> "",
    items |-> <<ColorObject(Str("#ed1b06")), ColorObject(Undef),
                ColorObject(Str("#79e607"))>>],
   [t |-> "array", s |-> "", items |-> <<>>],
   [t |-> "string", items |-> <<>>, s |-> "#ed1b06, #ff7801 ,#79e607"]}

Institution ==
  [present |-> TRUE, id |-> Num(15), name |-> Str("Kita Sonnenschein"),
   stadt |-> Str("Berlin")]

Customer ==
  [present |-> TRUE, id |-> Num(123), name |-> Str("Familie Muster"),
   stadt |-> Str("Bonn")]

\* a session with parameters
SessionWith(einrichtung, privat_kunde, colors, hasThresholds, thresholds) ==
  [present |-> TRUE, einrichtung |-> einrichtung, privat_kunde |-> privat_kunde,
   parameters |-> [present |-> TRUE, colors |-> colors,
                   hasThresholds |-> hasThresholds,
                   edulog_thresholds |-> thresholds],
   token |-> "", p_id |-> ""]

\* sessions without thresholds to look at
BareSessions ==
  {NoAuth,
   [NoAuth EXCEPT !.present = TRUE, !.privat_kunde = Customer],
   SessionWith(NoParty, NoParty, NoColors, FALSE, <<>>)}

\* a party as the session may carry it: absent, complete, without a name,
\* with an empty name, without a city
PartyInputs(party) ==
  {NoParty, party, [party EXCEPT !.name = Undef], [party EXCEPT !.name = Str("")],
   [party EXCEPT !.stadt = Undef]}

\* sessions that carry both parties in every combination
PartySessions ==
  {[NoAuth EXCEPT !.present = TRUE, !.einrichtung = e, !.privat_kunde = k] :
     e \in PartyInputs(Institution), k \in PartyInputs(Customer)}

\* what the min of level 1 or the max of level 6 may hold instead of a number
EdgeValues == {Undef, Null, Str("abc"), Str("2")}

\* six thresholds of the adapter's category with one entry out of the
\* ordinary: the min of level 1 or the max of level 6 not a number, or level 1
\* or level 6 replaced by a second entry of the other end's level
EdgeThresholds(a) ==
  LET base == [i \in 1..6 |-> ThresholdAt(a, i, 0, 6)] IN
  {[base EXCEPT ![1].min = v] : v \in EdgeValues}
  \cup {[base EXCEPT ![6].max = v] : v \in EdgeValues}
  \cup {[base EXCEPT ![1] = ThresholdAt(a, 12, 0, 12)],
        [base EXCEPT ![6] = ThresholdAt(a, 7, 0, 7)]}

AuthInputs(a) ==
  BareSessions \cup PartySessions
  \cup {SessionWith(Institution, NoParty, NoColors, TRUE, q) : q \in EdgeThresholds(a)}
  \cup {SessionWith(Institution, NoParty, c, TRUE, ThresholdList(a, st, n, o)) :
          c \in ColorInputs, st \in 0..MaxStretch, n \in {0, 5} \cup 6..MaxMatching,
          o \in 0..MaxOrder}

ScoreInputs == {Undef, Null, Str("abc"), Str("7")} \cup {Num(i) : i \in 0..MaxScore}

\* what a flag of the first item may hold; "absent" is a key the item lacks
FlagValues == <<Bool(TRUE), Bool(FALSE), Null, Undef, Num(1), Str("ja")>>

FlagAbsent(i, p) == (i + p) % (Len(FlagValues) + 1) = 0

FlagValueAt(i, p) == FlagValues[(i + p) % (Len(FlagValues) + 1)]

AMerkFlags ==
  <<"identifikationOK", "items2ok", "items2_v1", "items2_v2", "vor",
    "items3ok", "items3_v1", "items3_v2", "items4ok", "items4_v1", "items4_v2">>

FigurFlags ==
  <<"richtigKuh", "richtigEnte", "richtigKreis", "richtigDreieck",
    "richtigAuto", "richtigHaus", "richtigBaum", "richtigLampe">>

FlagsOf(a) ==
  IF a = "aMerkfaehigkeit" THEN AMerkFlags
  ELSE IF a = "figurGrundS" THEN FigurFlags ELSE <<>>

\* the first item of pattern p: the i-th flag holds the (i + p)-th value
FirstItem(a, p) ==
  LET flags == FlagsOf(a)
      kept == {i \in 1..Len(flags) : ~FlagAbsent(i, p)}
  IN [k \in {flags[i] : i \in kept} |->
        FlagValueAt(CHOOSE i \in kept : flags[i] = k, p)]

ItemsInputs(a) ==
  {[t |-> "undefined", list |-> <<>>], [t |-> "array", list |-> <<>>]}
  \cup {[t |-> "array", list |-> <<FirstItem(a, p)>>] : p \in 0..MaxPattern}

TestInputs(a) ==
  {NoTestResults}
  \cup [present : {TRUE}, score : ScoreInputs, items : ItemsInputs(a)]

ApiInputs ==
  {[Vorname |-> Str("Anna"), Nachname |-> Str("Muster"),
    Familiensprache |-> Str("Deutsch"), GeburtsDatum |-> Str("15/03/2018"),
    InDEseit |-> Str("2020"), authuser_name |-> Str("Frau Lehrer")],
   [Vorname |-> Str("Anna"), GeburtsDatum |-> Str("unbekannt")],
   <<>>}

\* a field the basic record may lack or hold with one of the values
Optional(k, values) == {<<>>} \cup {k :> v : v \in values}

\* basic records for the shared service: the demographic fields, and any of
\* min, score, colors, ranges, label1, name, company as raw fields
ServiceApiInputs ==
  {(((((((mn @@ sc) @@ co) @@ ra) @@ la) @@ na) @@ cy) @@
      [Vorname |-> Str("Anna"), Nachname |-> Str("Muster"),
       GeburtsDatum |-> Str("15/03/2018")]) :
     mn \in Optional("min", {Num(5), Str("5")}),
     sc \in Optional("score", {Num(7), Str("abc")}),
     co \in Optional("colors", {Str("#111111, #222222")}),
     ra \in Optional("ranges", {Str("0-3,4")}),
     la \in Optional("label1", {Str("Stufe 1"), Str("")}),
     na \in Optional("name", {Str("Roh Name")}),
     cy \in Optional("company", {Str("Roh GmbH")})}

AgeIdle ==
  /\ birthIn = [kind |-> "raw", y |-> 0, m |-> 0, d |-> 0, v |-> Undef]
  /\ ageResult = Undef
  /\ agePc = "idle"

ProcIdle ==
  /\ pAdapter = "aMerkfaehigkeit"
  /\ pApi = <<>>
  /\ pAuth = NoAuth
  /\ pTest = NoTestResults
  /\ pOut = <<>>
  /\ pPc = "idle"

(***************************************************************************)
(* The fetch pipeline: fetchData of the adapters and of the shared service *)
(***************************************************************************)
MaxCalls == 2

MaxNavs == 1

Procs == {"p1", "p2"}

\* who runs fetchData: an adapter, or the shared service itself
Callers == Adapters \cup {"service"}

\* the parameters the page may be opened with: both present, or one of them
\* missing (null) or empty; a patient id may be any text, one with '_' too
Urls ==
  {[token |-> Str("tokA"), p_id |-> Str("17")],
   [token |-> Null, p_id |-> Str("17")],
   [token |-> Str(""), p_id |-> Str("17")],
   [token |-> Str("tokA"), p_id |-> Null],
   [token |-> Str("tokA"), p_id |-> Str("")],
   [token |-> Str("tokA"), p_id |-> Str("mzeichnen_17")]}

\* hasApiParams() with p_id left unchecked
HasApiParamsTokenOnly(params) == Truthy(params.token)

\* hasApiParams(): !!(params.token && params.p_id)
HasApiParams(params) == Truthy(params.token) /\ Truthy(params.p_id)

CachePrefix(who) ==
  CASE who = "aMerkfaehigkeit" -> "amerkfaehigkeit_"
    [] who = "mZeichnen" -> "mzeichnen_"
    [] who = "figurGrundS" -> "figurgrunds_"
    [] who = "arbeitsBlaetter" -> "arbeitsblaetter_"
    [] OTHER -> ""

\* `<prefix>${params.p_id}_${params.token}`
CacheKey(who, params) ==
  CachePrefix(who) \o ToStr(params.p_id) \o "_" \o ToStr(params.token)

\* getFallbackData() of the caller
FallbackOf(who) ==
  IF who = "service" THEN ServiceFallback ELSE getFallbackData(who)

\* processData / processApiData of the caller
ProcessOf(who, apiData, auth, tr) ==
  IF who = "service" THEN processApiData(apiData, auth)
  ELSE processData(who, apiData, auth, tr)

\* what the three endpoints may answer
Failures == {"throw", "status", "badjson"}

SessionBodies == {"institution", "customer", "noIdentity", "noData"}

BasicBodies == {"array", "object", "emptyArray", "null"}

TestBodies == {"blob", "noKey", "null"}

\* six thresholds, levels 1..6, that span 0..13: the bands of ThresholdList
\* with the last one reaching 13; the first n are of the adapter's category
SpanningThresholds(a, n) ==
  [i \in 1..6 |->
     IF i = 6 THEN [ThresholdAt(a, i, 0, n) EXCEPT !.max = Num(13)]
     ELSE ThresholdAt(a, i, 0, n)]

\* the thresholds of all three categories, n entries of each
AllThresholds(n) ==
  SpanningThresholds("aMerkfaehigkeit", n) \o SpanningThresholds("mZeichnen", n)
    \o SpanningThresholds("figurGrundS", n)

\* this.authData = {user, einrichtung, privat_kunde, parameters, token, p_id}
\* for the session bodies that carry a data object
SessionOf(body, params) ==
  LET base ==
        CASE body = "institution" ->
               SessionWith(Institution, Customer, CHOOSE c \in ColorInputs :
                             c.t = "array" /\ Len(c.items) = 6,
                           TRUE, AllThresholds(6))
          [] body = "customer" ->
               SessionWith([NoParty EXCEPT !.present = TRUE], Customer, NoColors,
                           TRUE, AllThresholds(5))
          [] OTHER ->
               SessionWith([Institution EXCEPT !.id = Undef], NoParty, NoColors,
                           FALSE, <<>>)
  IN [base EXCEPT !.token = ToStr(params.token), !.p_id = ToStr(params.p_id)]

\* the basic record of patient pid
ApiRecord(pid) ==
  [Vorname |-> Str("Kind"), Nachname |-> Str(pid),
   Familiensprache |-> Str("Deutsch"), GeburtsDatum |-> Str("15/03/2018"),
   InDEseit |-> Str("2020"), authuser_name |-> Str("Frau Lehrer")]

NoData == [shape |-> "none", rec |-> <<>>]

\* the parsed body of the basic-data answer
BasicData(shape, params) ==
  [shape |-> shape,
   rec |-> IF shape \in {"array", "object"} THEN ApiRecord(ToStr(params.p_id))
           ELSE <<>>]

\* the result blob of the caller's category: score 7, one item
TestBlob(who) ==
  [present |-> TRUE, score |-> Num(7),
   items |-> [t |-> "array", list |-> <<FirstItem(who, 0)>>]]

NoSeen == [session |-> "none", basic |-> "none", test |-> "none"]

\* an invocation that was not started
IdleProc ==
  [pc |-> "idle", who |-> "service", params |-> [token |-> Null, p_id |-> Null],
   auth |-> NoAuth, data |-> NoData, net |-> <<>>, query |-> <<>>,
   seen |-> NoSeen, result |-> <<>>]

PipeIdle ==
  /\ url = [token |-> Null, p_id |-> Null]
  /\ cache = <<>>
  /\ cachedBy = <<>>
  /\ authData = NoAuth
  /\ procs = [p \in Procs |-> IdleProc]
  /\ slots = {}
  /\ started = 0
  /\ navs = 0

\* the invocation ends: its locals are gone, the caller holds `record`
End(pr, pc, record) ==
  [pr EXCEPT !.pc = pc, !.result = record, !.auth = NoAuth, !.data = NoData]

\* an error leaves fetchData: the invocation ends raised, without a record
Rethrow(pr) == End(pr, "raised", <<>>)

\* a catch that passes the error on
CatchRethrows(pr) == End(pr, "raised", <<>>)

\* catch (error) { return this.getFallbackData(); }
Catch(pr) == End(pr, "done", FallbackOf(pr.who))

\* return of a record
Return(pr, record) == End(pr, "done", record)

\* the private customer's id asked before the institution's
IdentityParamCustomerFirst(auth) ==
  IF auth.privat_kunde.present /\ Truthy(auth.privat_kunde.id) THEN "privat_kunde_id"
  ELSE IF auth.einrichtung.present /\ Truthy(auth.einrichtung.id)
  THEN "Einrichtung_id"
  ELSE ""

\* the identity parameter of the basic-data request, "" when the session
\* carries neither id
IdentityParam(auth) ==
  IF auth.einrichtung.present /\ Truthy(auth.einrichtung.id) THEN "Einrichtung_id"
  ELSE IF auth.privat_kunde.present /\ Truthy(auth.privat_kunde.id)
  THEN "privat_kunde_id"
  ELSE ""

\* what the branches append to apiUrl after p_id: one name=value pair
IdentityQuery(name, auth) ==
  IF name = "Einrichtung_id"
  THEN <<[name |-> name, value |-> ToStr(auth.einrichtung.id)]>>
  ELSE <<[name |-> name, value |-> ToStr(auth.privat_kunde.id)]>>

\* fetchData after `await authenticate()` returned auth: throw without an
\* identity, else request the basic data
AfterAuthenticate(pr, auth) ==
  IF IdentityParam(auth) = "" THEN Catch(pr)
  ELSE [pr EXCEPT !.pc = "awaitBasic", !.auth = auth,
                  !.net = Append(pr.net, "basic"),
                  !.query = IdentityQuery(IdentityParam(auth), auth)]

\* a shouldShowContent whose catch returns true
SessionFailedShowing(pr) ==
  CASE pr.who = "authenticate" -> Rethrow(pr)
    [] pr.who = "shouldShowContent" -> Return(pr, Bool(TRUE))
    [] OTHER -> Catch(pr)

\* what the caller of authenticate() does when it throws: fetchData catches
\* and returns the fallback, shouldShowContent catches and returns false,
\* a direct caller gets the error
SessionFailed(pr) ==
  CASE pr.who = "authenticate" -> Rethrow(pr)
    [] pr.who = "shouldShowContent" -> Return(pr, Bool(FALSE))
    [] OTHER -> Catch(pr)

\* what the caller of authenticate() does with the session it returns
SessionObtained(pr, auth) ==
  CASE pr.who = "authenticate" -> Return(pr, auth)
    [] pr.who = "shouldShowContent" -> Return(pr, Bool(TRUE))
    [] OTHER -> AfterAuthenticate(pr, auth)

\* data[0] || data: throws on null
ApiDataThrows(data) == data.shape = "null"

\* const processedData = this.processData(data[0] || data, authData,
\* testResults); ...; return processedData
Assemble(pr, tr) ==
  IF ApiDataThrows(pr.data) THEN Catch(pr)
  ELSE Return(pr, ProcessOf(pr.who, pr.data.rec, pr.auth, tr))

\* no cache.set
CacheSetSkipped(pr, ended, c) == c

\* cache.set(cacheKey, processedData), which the throw of data[0] skips;
\* `ended` is the invocation as Assemble left it
CacheSet(pr, ended, c) ==
  IF ApiDataThrows(pr.data) THEN c
  ELSE (CacheKey(pr.who, pr.params) :> ended.result) @@ c

\* the category, patient and token of the invocation
Triple(who, params) == [who |-> who, p_id |-> params.p_id, token |-> params.token]

\* the history of cache.set: the entry of the key now comes from pr
StoredBy(pr, by) ==
  IF ApiDataThrows(pr.data) THEN by
  ELSE (CacheKey(pr.who, pr.params) :> Triple(pr.who, pr.params)) @@ by

\* the slots are alike: the first free one is taken
SlotBefore(q, p) == q \in slots /\ q = "p1" /\ p = "p2"

\* the call of fetchData up to its first await
StartFetch(p, who) ==
  /\ p \in slots
  /\ procs[p].pc = "idle"
  /\ \A q \in Procs : procs[q].pc = "idle" => ~SlotBefore(q, p)
  /\ started < MaxCalls
  /\ started' = started + 1
  /\ LET pr == [IdleProc EXCEPT !.who = who, !.params = url] IN
     IF ~HasApiParams(url)
     THEN procs' = [procs EXCEPT ![p] = Return(pr, FallbackOf(who))]
     ELSE IF CacheKey(who, url) \in DOMAIN cache
     THEN procs' = [procs EXCEPT ![p] = Return(pr, cache[CacheKey(who, url)])]
     ELSE IF authData.present
     THEN procs' = [procs EXCEPT ![p] = AfterAuthenticate(pr, authData)]
     ELSE procs' = [procs EXCEPT ![p] =
                      [pr EXCEPT !.pc = "awaitSession", !.net = <<"session">>]]
  /\ UNCHANGED <<today, ageVars, procVars, url, cache, cachedBy, authData, slots, navs>>

\* authenticate() called directly: the stored session, an error without
\* parameters, else the session call
StartAuthenticate(p) ==
  /\ p \in slots
  /\ procs[p].pc = "idle"
  /\ \A q \in Procs : procs[q].pc = "idle" => ~SlotBefore(q, p)
  /\ started < MaxCalls
  /\ started' = started + 1
  /\ LET pr == [IdleProc EXCEPT !.who = "authenticate", !.params = url] IN
     IF authData.present
     THEN procs' = [procs EXCEPT ![p] = Return(pr, authData)]
     ELSE IF ~HasApiParams(url)
     THEN procs' = [procs EXCEPT ![p] = Rethrow(pr)]
     ELSE procs' = [procs EXCEPT ![p] =
                      [pr EXCEPT !.pc = "awaitSession", !.net = <<"session">>]]
  /\ UNCHANGED <<today, ageVars, procVars, url, cache, cachedBy, authData, slots, navs>>

\* shouldShowContent() up to its first await: false without parameters,
\* true with a stored session, else the session call
StartShouldShowContent(p) ==
  /\ p \in slots
  /\ procs[p].pc = "idle"
  /\ \A q \in Procs : procs[q].pc = "idle" => ~SlotBefore(q, p)
  /\ started < MaxCalls
  /\ started' = started + 1
  /\ LET pr == [IdleProc EXCEPT !.who = "shouldShowContent", !.params = url] IN
     IF ~HasApiParams(url)
     THEN procs' = [procs EXCEPT ![p] = Return(pr, Bool(FALSE))]
     ELSE IF authData.present
     THEN procs' = [procs EXCEPT ![p] = Return(pr, Bool(TRUE))]
     ELSE procs' = [procs EXCEPT ![p] =
                      [pr EXCEPT !.pc = "awaitSession", !.net = <<"session">>]]
  /\ UNCHANGED <<today, ageVars, procVars, url, cache, cachedBy, authData, slots, navs>>

\* a failed session call that leaves a session behind
SessionFailsStoring(p, how) ==
  /\ procs[p].pc = "awaitSession"
  /\ procs' = [procs EXCEPT ![p] =
                 SessionFailed([procs[p] EXCEPT !.seen.session = "failed"])]
  /\ authData' = SessionOf("noIdentity", procs[p].params)
  /\ UNCHANGED <<today, ageVars, procVars, url, cache, cachedBy, slots, started, navs>>

\* the session call fails: authenticate rethrows, fetchData catches
SessionFails(p, how) ==
  /\ procs[p].pc = "awaitSession"
  /\ procs' = [procs EXCEPT ![p] =
                 SessionFailed([procs[p] EXCEPT !.seen.session = "failed"])]
  /\ UNCHANGED <<today, ageVars, procVars, url, cache, cachedBy, authData, slots, started, navs>>

\* the session call answers 2xx with a JSON body
SessionAnswers(p, body) ==
  /\ procs[p].pc = "awaitSession"
  /\ LET pr == [procs[p] EXCEPT !.seen.session = body] IN
     IF body = "noData"
     THEN /\ procs' = [procs EXCEPT ![p] = SessionFailed(pr)]
          /\ UNCHANGED authData
     ELSE /\ authData' = SessionOf(body, pr.params)
          /\ procs' = [procs EXCEPT ![p] = SessionObtained(pr, authData')]
  /\ UNCHANGED <<today, ageVars, procVars, url, cache, cachedBy, slots, started, navs>>

\* a failed basic-data call after which the test results are requested
BasicFailsGoesOn(p, how) ==
  /\ procs[p].pc = "awaitBasic"
  /\ procs' = [procs EXCEPT ![p] =
                 [procs[p] EXCEPT !.seen.basic = "failed", !.pc = "awaitTest",
                                  !.net = Append(procs[p].net, "test")]]
  /\ UNCHANGED <<today, ageVars, procVars, url, cache, cachedBy, authData, slots, started, navs>>

\* a failed basic-data call whose fallback record is put into the cache
BasicFailsCaching(p, how) ==
  /\ procs[p].pc = "awaitBasic"
  /\ procs' = [procs EXCEPT ![p] = Catch([procs[p] EXCEPT !.seen.basic = "failed"])]
  /\ cache' = (CacheKey(procs[p].who, procs[p].params) :> procs'[p].result) @@ cache
  /\ cachedBy' = (CacheKey(procs[p].who, procs[p].params)
                   :> Triple(procs[p].who, procs[p].params)) @@ cachedBy
  /\ UNCHANGED <<today, ageVars, procVars, url, authData, slots, started, navs>>

\* the basic-data call fails: network error, non-2xx or a body that is no JSON
BasicFails(p, how) ==
  /\ procs[p].pc = "awaitBasic"
  /\ procs' = [procs EXCEPT ![p] = Catch([procs[p] EXCEPT !.seen.basic = "failed"])]
  /\ UNCHANGED <<today, ageVars, procVars, url, cache, cachedBy, authData, slots, started, navs>>

\* the basic-data call answers 2xx with a JSON body: the scoring adapters go
\* on to the test results, the others assemble
BasicAnswers(p, shape) ==
  /\ procs[p].pc = "awaitBasic"
  /\ LET pr == [procs[p] EXCEPT !.seen.basic = shape,
                                !.data = BasicData(shape, procs[p].params)] IN
     IF pr.who \in ScoringAdapters
     THEN /\ procs' = [procs EXCEPT ![p] =
                         [pr EXCEPT !.pc = "awaitTest",
                                    !.net = Append(pr.net, "test")]]
          /\ UNCHANGED <<cache, cachedBy>>
     ELSE /\ procs' = [procs EXCEPT ![p] = Assemble(pr, NoTestResults)]
          /\ cache' = CacheSet(pr, procs'[p], cache)
          /\ cachedBy' = StoredBy(pr, cachedBy)
  /\ UNCHANGED <<today, ageVars, procVars, url, authData, slots, started, navs>>

\* the test-result call throws, or answers 2xx with a body that is no JSON
TestFails(p, how) ==
  /\ procs[p].pc = "awaitTest"
  /\ how \in {"throw", "badjson"}
  /\ procs' = [procs EXCEPT ![p] = Catch([procs[p] EXCEPT !.seen.test = how])]
  /\ UNCHANGED <<today, ageVars, procVars, url, cache, cachedBy, authData, slots, started, navs>>

\* a test-result call answered non-2xx whose record is returned but not
\* put into the cache
TestNotOkUncached(p) ==
  /\ procs[p].pc = "awaitTest"
  /\ procs' = [procs EXCEPT ![p] =
                 Assemble([procs[p] EXCEPT !.seen.test = "status"], NoTestResults)]
  /\ UNCHANGED <<today, ageVars, procVars, url, cache, cachedBy, authData, slots, started, navs>>

\* the test-result call answers non-2xx: testResults stays null
TestNotOk(p) ==
  /\ procs[p].pc = "awaitTest"
  /\ procs' = [procs EXCEPT ![p] =
                 Assemble([procs[p] EXCEPT !.seen.test = "status"], NoTestResults)]
  /\ cache' = CacheSet(procs[p], procs'[p], cache)
  /\ cachedBy' = StoredBy(procs[p], cachedBy)
  /\ UNCHANGED <<today, ageVars, procVars, url, authData, slots, started, navs>>

\* the test-result call answers 2xx with JSON: testData.<key> || null
TestAnswers(p, body) ==
  /\ procs[p].pc = "awaitTest"
  /\ LET pr == [procs[p] EXCEPT !.seen.test = body] IN
     IF body = "null"
     THEN /\ procs' = [procs EXCEPT ![p] = Catch(pr)]
          /\ UNCHANGED <<cache, cachedBy>>
     ELSE /\ procs' = [procs EXCEPT ![p] =
                         Assemble(pr, IF body = "blob" THEN TestBlob(pr.who)
                                      ELSE NoTestResults)]
          /\ cache' = CacheSet(pr, procs'[p], cache)
          /\ cachedBy' = StoredBy(pr, cachedBy)
  /\ UNCHANGED <<today, ageVars, procVars, url, authData, slots, started, navs>>

\* the caller has taken the record: the slot is free again
Finish(p) ==
  /\ procs[p].pc = "done"
  /\ procs' = [procs EXCEPT ![p] = IdleProc]
  /\ UNCHANGED <<today, ageVars, procVars, url, cache, cachedBy, authData, slots, started, navs>>

\* the page's URL parameters change; an invocation reads them in its first
\* step only, so a change while one is in flight is the same as a change
\* after it
SetUrl(u) ==
  /\ navs < MaxNavs
  /\ \A p \in Procs : procs[p].pc = "idle"
  /\ u # url
  /\ url' = u
  /\ navs' = navs + 1
  /\ UNCHANGED <<today, ageVars, procVars, cache, cachedBy, authData, procs, slots, started>>

\* the page as its script does it: `const data = await ...fetchData()`, one
\* invocation after the other
Init ==
  /\ today = [y |-> 2024, m |-> 6, d |-> 1]
  /\ AgeIdle
  /\ ProcIdle
  /\ url \in Urls
  /\ cache = <<>>
  /\ cachedBy = <<>>
  /\ authData = NoAuth
  /\ procs = [p \in Procs |-> IdleProc]
  /\ slots = {"p1"}
  /\ started = 0
  /\ navs = 0

Next ==
  \/ \E p \in Procs, who \in Callers : StartFetch(p, who)
  \/ \E p \in Procs : StartAuthenticate(p)
  \/ \E p \in Procs : StartShouldShowContent(p)
  \/ \E p \in Procs, how \in Failures : SessionFails(p, how)
  \/ \E p \in Procs, body \in SessionBodies : SessionAnswers(p, body)
  \/ \E p \in Procs, how \in Failures : BasicFails(p, how)
  \/ \E p \in Procs, shape \in BasicBodies : BasicAnswers(p, shape)
  \/ \E p \in Procs, how \in Failures : TestFails(p, how)
  \/ \E p \in Procs : TestNotOk(p)
  \/ \E p \in Procs, body \in TestBodies : TestAnswers(p, body)
  \/ \E p \in Procs : Finish(p)
  \/ \E u \in Urls : SetUrl(u)

Spec == Init /\ [][Next]_vars

\* token or p_id is missing or empty
ParamsMissing(params) ==
  params.token \in {Null, Str("")} \/ params.p_id \in {Null, Str("")}

\* C2: a fetchData started while token or p_id is missing or empty ends at
\* once with the caller's fallback record, issues no network call and leaves
\* the cache and the stored session as they were
C2_MissingParamsFallback ==
  [][\A p \in Procs :
       (/\ procs[p].pc = "idle" /\ procs'[p].pc # "idle"
        /\ procs'[p].who \in Callers
        /\ ParamsMissing(url)) =>
         /\ procs'[p].pc = "done"
         /\ procs'[p].result = FallbackOf(procs'[p].who)
         /\ procs'[p].net = <<>>
         /\ cache' = cache
         /\ authData' = authData]_vars

C2_Witness ==
  \E p \in Procs :
    /\ procs[p].pc = "done"
    /\ ParamsMissing(procs[p].params)
    /\ procs[p].who \in ScoringAdapters
    /\ procs[p].result = FallbackOf(procs[p].who)
    /\ procs[p].net = <<>>
    /\ DOMAIN cache # {}
    /\ authData.present

\* the session or the basic-data call of the invocation failed: an error, a
\* non-2xx status, a body that is no JSON or lacks its data, a null record
UpstreamFailed(pr) ==
  pr.seen.session \in {"failed", "noData"} \/ pr.seen.basic \in {"failed", "null"}

\* C3: fetchData never raises; every invocation that ended holds a record,
\* and the caller's fallback record after a session or basic-data failure
C3_NeverRaises ==
  \A p \in Procs :
    procs[p].who \in Callers =>
      /\ procs[p].pc \in {"idle", "awaitSession", "awaitBasic", "awaitTest", "done"}
      /\ procs[p].pc = "done" =>
           /\ {"name", "birthdate", "date", "company"} \subseteq DOMAIN procs[p].result
           /\ UpstreamFailed(procs[p]) => procs[p].result = FallbackOf(procs[p].who)

C3_Witness ==
  \E p \in Procs :
    /\ procs[p].pc = "done"
    /\ procs[p].seen.session = "institution"
    /\ procs[p].seen.basic = "null"
    /\ procs[p].net = <<"session", "basic", "test">>
    /\ procs[p].result = FallbackOf(procs[p].who)

\* C4: in a scoring adapter, after the session and the basic data were
\* obtained, a test-result call that fails in any way (status, network
\* error, unparseable body) still gives the record assembled from the basic
\* data with testResults = null, score = 0 and an empty assessment
C4_TestFailureDegrades ==
  \A p \in Procs :
    (/\ procs[p].pc = "done"
     /\ procs[p].who \in ScoringAdapters
     /\ procs[p].seen.session \in {"none", "institution", "customer"}
     /\ procs[p].seen.basic \in {"array", "object", "emptyArray"}
     /\ procs[p].seen.test \in {"status", "throw", "badjson"}) =>
      /\ procs[p].result
           = processData(procs[p].who,
                         BasicData(procs[p].seen.basic, procs[p].params).rec,
                         authData, NoTestResults)
      /\ procs[p].result.testResults = NoTestResults
      /\ procs[p].result.score = Num(0)
      /\ procs[p].result.assessment = Str("")

\* C11: with token and p_id present and nothing cached, a session with six
\* thresholds of the adapter's category spanning 0..13, a basic-data answer
\* and a test result of score 7 (in level 4's band only), fetchData returns a
\* record with level 4's text as assessment, min 0, max 13, score 7, and the
\* cache holds that record under the adapter's key
C11_EndToEndSuccess ==
  \A p \in Procs :
    (/\ procs[p].pc = "done"
     /\ procs[p].who \in ScoringAdapters
     /\ procs[p].net = <<"session", "basic", "test">>
     /\ procs[p].seen.session = "institution"
     /\ procs[p].seen.basic \in {"array", "object", "emptyArray"}
     /\ procs[p].seen.test = "blob") =>
      /\ procs[p].result.assessment = Str(LevelTexts[4])
      /\ procs[p].result.min = Num(0)
      /\ procs[p].result.max = Num(13)
      /\ procs[p].result.score = Num(7)
      /\ CacheKey(procs[p].who, procs[p].params) \in DOMAIN cache
      /\ cache[CacheKey(procs[p].who, procs[p].params)] = procs[p].result

C11_Witness ==
  \E p \in Procs :
    /\ procs[p].pc = "done"
    /\ procs[p].who = "aMerkfaehigkeit"
    /\ procs[p].net = <<"session", "basic", "test">>
    /\ procs[p].seen = [session |-> "institution", basic |-> "array", test |-> "blob"]
    /\ procs[p].result.assessment = Str("unauffaellig")
    /\ procs[p].result.name = Str("Kind 17")
    /\ DOMAIN cache = {"amerkfaehigkeit_17_tokA"}
    /\ cache["amerkfaehigkeit_17_tokA"] = procs[p].result

\* C13: a cache hit returns a record only if the same category stored it
\* for the same patient id and the same token
C13_CacheKeyedByTriple ==
  [][\A p \in Procs :
       (/\ procs[p].pc = "idle" /\ procs'[p].pc # "idle"
        /\ procs'[p].who \in Callers
        /\ HasApiParams(url)
        /\ CacheKey(procs'[p].who, url) \in DOMAIN cache) =>
         cachedBy[CacheKey(procs'[p].who, url)] = Triple(procs'[p].who, url)]_vars

\* C14: the session authenticate returns to an invocation was obtained for
\* the p_id and the token of the URL the invocation was started with
C14_SessionKeyedByParams ==
  \A p \in Procs :
    procs[p].pc \in {"awaitBasic", "awaitTest"} =>
      /\ procs[p].auth.present
      /\ procs[p].auth.p_id = ToStr(procs[p].params.p_id)
      /\ procs[p].auth.token = ToStr(procs[p].params.token)

\* the invocation issued a session call
CalledSession(pr) == \E i \in DOMAIN pr.net : pr.net[i] = "session"

\* C15: a failed session call leaves the stored session null and writes no
\* cache entry; an invocation that gets past the parameter test and the cache
\* issues a session call exactly when no session is stored; a session call
\* that succeeds stores the session
C15_OnlySuccessesCached ==
  [][\A p \in Procs :
       /\ (procs[p].pc = "awaitSession" /\ procs'[p].seen.session = "failed") =>
            (~authData'.present /\ cache' = cache)
       /\ (/\ procs[p].pc = "idle" /\ procs'[p].pc # "idle"
           /\ procs'[p].who \in Callers
           /\ ~ParamsMissing(url)
           /\ CacheKey(procs'[p].who, url) \notin DOMAIN cache) =>
            (CalledSession(procs'[p]) <=> ~authData.present)
       /\ (/\ procs[p].pc = "awaitSession"
           /\ procs'[p].seen.session \in {"institution", "customer", "noIdentity"}) =>
            authData'.present]_vars

C15_Witness ==
  \E p \in Procs :
    /\ procs[p].pc = "done"
    /\ procs[p].seen.session = "failed"
    /\ procs[p].net = <<"session">>
    /\ started = 2 /\ navs = 0
    /\ ~authData.present
    /\ cache = <<>>

\* the invocation issued the call named c
Called(pr, c) == \E i \in DOMAIN pr.net : pr.net[i] = c

\* session, basic data, test results, each at most once and in this order,
\* the session call left out or not
OrderedCalls(net) ==
  net \in {<<>>, <<"session">>, <<"session", "basic">>,
           <<"session", "basic", "test">>, <<"basic">>, <<"basic", "test">>}

\* the order of the calls of a scoring adapter's invocation: a prefix of
\* session, basic data, test results; no session call only when a session
\* is stored; basic data only with a session that has an identity; test
\* results only after a basic-data answer
CallsInOrder(pr) ==
  /\ OrderedCalls(pr.net)
  /\ (pr.net # <<>> /\ ~Called(pr, "session")) => authData.present
  /\ Called(pr, "basic") => pr.seen.session \in {"none", "institution", "customer"}
  /\ Called(pr, "test") => pr.seen.basic \in BasicBodies

HasId(party) == party.present /\ Truthy(party.id)

\* the one identity parameter C17 asks of a basic-data request made with
\* the session auth
IdentityByPrecedence(auth) ==
  IF HasId(auth.einrichtung)
  THEN <<[name |-> "Einrichtung_id", value |-> ToStr(auth.einrichtung.id)]>>
  ELSE <<[name |-> "privat_kunde_id", value |-> ToStr(auth.privat_kunde.id)]>>

\* C17: a basic-data request carries exactly one identity parameter, the
\* institution's id when the session has one, else the private customer's;
\* an invocation whose session has neither id issues no basic-data and no
\* test-result call, returns the fallback record and leaves the cache alone
C17_IdentityResolution ==
  [][\A p \in Procs :
       /\ (procs[p].pc \in {"idle", "awaitSession"} /\ procs'[p].pc = "awaitBasic") =>
            /\ Len(procs'[p].query) = 1
            /\ procs'[p].query = IdentityByPrecedence(procs'[p].auth)
            /\ HasId(procs'[p].auth.einrichtung) \/ HasId(procs'[p].auth.privat_kunde)
       /\ (/\ procs[p].pc \in {"idle", "awaitSession"}
           /\ procs'[p].pc = "done"
           /\ procs'[p].who \in Callers
           /\ procs'[p].seen.session \in {"none", "noIdentity"}
           /\ HasApiParams(procs'[p].params)
           /\ authData'.present
           /\ ~HasId(authData'.einrichtung) /\ ~HasId(authData'.privat_kunde)) =>
            /\ ~Called(procs'[p], "basic") /\ ~Called(procs'[p], "test")
            /\ procs'[p].query = <<>>
            /\ procs'[p].result = FallbackOf(procs'[p].who)
            /\ cache' = cache
       /\ (Called(procs'[p], "basic") <=> procs'[p].query # <<>>)]_vars

\* a request made with a session that carries both ids
C17_Witness ==
  \E p \in Procs :
    /\ procs[p].pc = "awaitBasic"
    /\ HasId(procs[p].auth.einrichtung) /\ HasId(procs[p].auth.privat_kunde)
    /\ procs[p].query = <<[name |-> "Einrichtung_id", value |-> "15"]>>

\* the records processData or processApiData of the caller `by.who` can
\* assemble for the patient and token of `by` from the stored session auth
\* and a basic-data answer of the given shape: one per test result
Assembled(by, auth, shape) ==
  {ProcessOf(by.who,
             BasicData(shape, [token |-> by.token, p_id |-> by.p_id]).rec,
             auth, tr) :
     tr \in {TestBlob(by.who), NoTestResults}}

\* C24: every cache entry is a record assembled from a session and a
\* basic-data answer: an entry stays as it was stored, and an entry that is
\* new or stored anew is such a record; an invocation of fetchData that
\* returns the fallback record leaves the cache as it was
C24_CacheHoldsAssembled ==
  [][/\ \A k \in DOMAIN cache :
          k \in DOMAIN cache' /\ (cache'[k] # cache[k] => cachedBy'[k] # cachedBy[k])
     /\ \A k \in DOMAIN cache' :
          (k \notin DOMAIN cache \/ cachedBy'[k] # cachedBy[k]) =>
            \E p \in Procs :
              /\ procs[p].pc \in {"awaitBasic", "awaitTest"}
              /\ procs'[p].pc = "done"
              /\ procs'[p].seen.session \in {"none", "institution", "customer"}
              /\ procs'[p].seen.basic \in {"array", "object", "emptyArray"}
              /\ cache'[k] \in Assembled(cachedBy'[k], authData', procs'[p].seen.basic)
     /\ \A p \in Procs :
          (/\ procs[p].pc # "done" /\ procs'[p].pc = "done"
           /\ procs'[p].who \in Callers
           /\ procs'[p].result = FallbackOf(procs'[p].who)) =>
            cache' = cache]_vars

\* an entry in the cache, and a later invocation of another caller that
\* fell back after a failed basic-data call
C24_Witness ==
  \E p \in Procs :
    /\ Cardinality(DOMAIN cache) = 1
    /\ procs[p].pc = "done"
    /\ procs[p].seen.basic = "failed"
    /\ procs[p].result = FallbackOf(procs[p].who)
    /\ CacheKey(procs[p].who, procs[p].params) \notin DOMAIN cache

C28_ShouldShowContent ==
  [][\A p \in Procs :
       procs'[p].who = "shouldShowContent" =>
         /\ procs'[p].pc # "raised"
         /\ (procs[p].pc = "idle" /\ procs'[p].pc # "idle") =>
              IF ParamsMissing(url)
              THEN /\ procs'[p].pc = "done"
                   /\ procs'[p].result = Bool(FALSE)
                   /\ procs'[p].net = <<>>
                   /\ authData' = authData
              ELSE IF authData.present
              THEN /\ procs'[p].pc = "done"
                   /\ procs'[p].result = Bool(TRUE)
                   /\ procs'[p].net = <<>>
              ELSE /\ procs'[p].pc = "awaitSession"
                   /\ procs'[p].net = <<"session">>
         /\ (procs[p].pc = "awaitSession" /\ procs'[p].pc # "awaitSession") =>
              /\ procs'[p].pc = "done"
              /\ procs'[p].net = <<"session">>
              /\ IF procs'[p].seen.session \in {"failed", "noData"}
                 THEN procs'[p].result = Bool(FALSE) /\ ~authData'.present
                 ELSE procs'[p].result = Bool(TRUE) /\ authData'.present]_vars

\* a shouldShowContent that returned false after a failed session call,
\* the first call having returned without a session as well
C28_Witness ==
  \E p \in Procs :
    /\ procs[p].pc = "done"
    /\ procs[p].who = "shouldShowContent"
    /\ procs[p].seen.session = "failed"
    /\ procs[p].net = <<"session">>
    /\ procs[p].result = Bool(FALSE)
    /\ ~authData.present
    /\ started = 2

(***************************************************************************)
(* SpecConcurrent: calls started while earlier ones are pending            *)
(***************************************************************************)
\* the page opened with one token and one p_id, which never change; a call
\* may start while another awaits an answer
InitConcurrent ==
  /\ today = [y |-> 2024, m |-> 6, d |-> 1]
  /\ AgeIdle
  /\ ProcIdle
  /\ url = [token |-> Str("tokA"), p_id |-> Str("17")]
  /\ cache = <<>>
  /\ cachedBy = <<>>
  /\ authData = NoAuth
  /\ procs = [p \in Procs |-> IdleProc]
  /\ slots = Procs
  /\ started = 0
  /\ navs = 0

NextConcurrent ==
  \/ \E p \in Procs, who \in Callers : StartFetch(p, who)
  \/ \E p \in Procs : StartAuthenticate(p)
  \/ \E p \in Procs : StartShouldShowContent(p)
  \/ \E p \in Procs, how \in Failures : SessionFails(p, how)
  \/ \E p \in Procs, body \in SessionBodies : SessionAnswers(p, body)
  \/ \E p \in Procs, how \in Failures : BasicFails(p, how)
  \/ \E p \in Procs, shape \in BasicBodies : BasicAnswers(p, shape)
  \/ \E p \in Procs, how \in Failures : TestFails(p, how)
  \/ \E p \in Procs : TestNotOk(p)
  \/ \E p \in Procs, body \in TestBodies : TestAnswers(p, body)
  \/ \E p \in Procs : Finish(p)

SpecConcurrent == InitConcurrent /\ [][NextConcurrent]_vars

\* C23: for one token and p_id, whatever calls are started and however
\* they interleave, a session call is answered with a session only while no
\* session is stored, so at most once
C23_SessionObtainedOnce ==
  [][\A p \in Procs :
       (/\ procs[p].pc = "awaitSession"
        /\ procs'[p].seen.session \in {"institution", "customer", "noIdentity"}) =>
         ~authData.present]_vars

(***************************************************************************)
(* SpecProcess: processData applied to drawn inputs                        *)
(***************************************************************************)
InitProcess ==
  /\ today = [y |-> 2024, m |-> 6, d |-> 1]
  /\ pAdapter \in Adapters
  /\ pApi \in ApiInputs
  /\ pAuth \in AuthInputs(pAdapter)
  /\ pTest \in TestInputs(pAdapter)
  /\ pOut = <<>>
  /\ pPc = "ready"
  /\ AgeIdle
  /\ PipeIdle

CallProcessData ==
  /\ pPc = "ready"
  /\ pOut' = processData(pAdapter, pApi, pAuth, pTest)
  /\ pAuth' = SessionAfter(pAdapter, pAuth)
  /\ pPc' = "done"
  /\ UNCHANGED <<today, ageVars, pAdapter, pApi, pTest, pipeVars>>

\* processData called once more with the same arguments, the session being
\* the object the first call left
CallProcessDataAgain ==
  /\ pPc = "done"
  /\ pOut' = processData(pAdapter, pApi, pAuth, pTest)
  /\ pAuth' = SessionAfter(pAdapter, pAuth)
  /\ pPc' = "repeated"
  /\ UNCHANGED <<today, ageVars, pAdapter, pApi, pTest, pipeVars>>

NextProcess == CallProcessData \/ CallProcessDataAgain

SpecProcess == InitProcess /\ [][NextProcess]_vars

\* the thresholds the drawn session lists
SessionThresholds ==
  IF pAuth.present /\ pAuth.parameters.present /\ pAuth.parameters.hasThresholds
  THEN pAuth.parameters.edulog_thresholds ELSE <<>>

\* the places of the list that hold a threshold of the adapter's category
Matching ==
  {i \in DOMAIN SessionThresholds :
     SessionThresholds[i].category = CategoryOf(pAdapter)}

\* processData of a scoring adapter has returned
ScoringDone == pPc = "done" /\ pAdapter \in ScoringAdapters

\* exactly six matching thresholds, one per level 1..6
SixLevels ==
  /\ Cardinality(Matching) = 6
  /\ {SessionThresholds[i].level.n : i \in Matching} = 1..6

\* the test result carries a number as its score
NumericScore == pTest.present /\ pTest.score.t = "number"

\* the score lies in the band of the threshold at place i, ends included
Holds(i) ==
  /\ NumberOrZero(SessionThresholds[i].min).n <= pTest.score.n
  /\ pTest.score.n <= NumberOrZero(SessionThresholds[i].max).n

\* the places whose band holds the score
Holders == {i \in Matching : Holds(i)}

\* the holders of the smallest level
LowestHolders ==
  {i \in Holders : \A j \in Holders :
     SessionThresholds[i].level.n <= SessionThresholds[j].level.n}

\* C1: the record processData returns has the keys of the adapter's
\* fallback record, whatever the inputs
C1_KeyParity ==
  pPc = "done" => DOMAIN pOut = DOMAIN getFallbackData(pAdapter)

\* how many colour entries the session's parameters.colors holds
SessionColorCount ==
  IF ~(pAuth.present /\ pAuth.parameters.present) THEN 0
  ELSE LET c == pAuth.parameters.colors IN
       IF c.t = "array" THEN Len(c.items)
       ELSE IF c.t = "string" /\ c.s # "" THEN Len(Split(c.s, ","))
       ELSE 0

C6_EveryHoldingLevel ==
  (ScoringDone /\ SixLevels /\ NumericScore) =>
    /\ \A i \in Holders : pOut.assessment = SessionThresholds[i].description2
    /\ Holders = {} => pOut.assessment = Str("")

\* C6 amended: with six thresholds, the assessment is the text of a level
\* whose band holds the score when no lower level's band holds it too, and
\* '' when no band holds it
C6_BandClassification ==
  (ScoringDone /\ SixLevels /\ NumericScore) =>
    /\ \A i \in LowestHolders :
         pOut.assessment = SessionThresholds[i].description2
    /\ Holders = {} => pOut.assessment = Str("")

C6_Witness ==
  /\ ScoringDone /\ SixLevels /\ NumericScore
  /\ pTest.score = Num(6)
  /\ Cardinality(Holders) = 1
  /\ pOut.assessment = Str("grenzwertig")

\* C7: when the bands of two or more thresholds of the category hold the
\* score, the assessment is the text of the one of smallest level, in
\* whatever order the session lists them
C7_LowestLevelWins ==
  (ScoringDone /\ Cardinality(Matching) >= 6 /\ NumericScore
    /\ Cardinality(Holders) >= 2) =>
    pOut.assessment \in {SessionThresholds[i].description2 : i \in LowestHolders}

C7_Witness ==
  /\ ScoringDone /\ SixLevels /\ NumericScore
  /\ Cardinality(Holders) >= 2
  /\ \E i \in Holders : \E j \in LowestHolders :
       i < j /\ SessionThresholds[i].level.n > SessionThresholds[j].level.n
  /\ \A j \in LowestHolders : pOut.assessment = SessionThresholds[j].description2

\* the colour the table gives a flag value
TableColor(v) ==
  IF v = Bool(TRUE) THEN Str("#d5f5d5")
  ELSE IF v = Bool(FALSE) THEN Str("#ffcccc")
  ELSE Str("")

\* the keys of the figurGrundS record, in the order of FigurFlags
FigurKeys == <<"kuh", "ente", "kreis", "dreieck", "auto", "haus", "baum", "lampe">>

\* the cell of aMerkfaehigkeit's grid the i-th flag of AMerkFlags colours
AMerkCell(i) == IF i <= 8 THEN i ELSE i + 1

\* C8: in both grid adapters each flag of the first item gives '#d5f5d5'
\* for true, '#ffcccc' for false and '' for every other value
C8_ColorTable ==
  (pPc = "done" /\ HasItems(pTest)) =>
    /\ pAdapter = "aMerkfaehigkeit" =>
         \A i \in 1..Len(AMerkFlags) :
           pOut.cellColors[AMerkCell(i)]
             = TableColor(Get(pTest.items.list[1], AMerkFlags[i]))
    /\ pAdapter = "figurGrundS" =>
         \A i \in 1..Len(FigurFlags) :
           pOut[FigurKeys[i]]
             = TableColor(Get(pTest.items.list[1], FigurFlags[i]))

\* the party carries a name
NamePresent(party) == party.present /\ Truthy(party.name)

\* the party carries a city
CityPresent(party) == party.present /\ Truthy(party.stadt)

\* the name of the institution if it has one, else of the private customer
\* if it has one, else ''
NameByPrecedence ==
  IF NamePresent(pAuth.einrichtung) THEN pAuth.einrichtung.name
  ELSE IF NamePresent(pAuth.privat_kunde) THEN pAuth.privat_kunde.name
  ELSE Str("")

\* C12 as stated: company follows the precedence institution, private
\* customer, ''; stadt is the institution's city if present, else the
\* private customer's city, else ''
C12_CityOwnPrecedence ==
  pPc = "done" =>
    /\ pOut.company = NameByPrecedence
    /\ "stadt" \in DOMAIN pOut =>
         pOut.stadt = IF CityPresent(pAuth.einrichtung) THEN pAuth.einrichtung.stadt
                      ELSE IF CityPresent(pAuth.privat_kunde)
                      THEN pAuth.privat_kunde.stadt
                      ELSE Str("")

\* C12 amended: company follows the precedence institution, private
\* customer, ''; stadt is the city of the party the company name was taken
\* from, '' when that party has no city or no party has a name
C12_CompanyPrecedence ==
  pPc = "done" =>
    /\ pOut.company = NameByPrecedence
    /\ "stadt" \in DOMAIN pOut =>
         pOut.stadt = IF NamePresent(pAuth.einrichtung)
                      THEN (IF CityPresent(pAuth.einrichtung)
                            THEN pAuth.einrichtung.stadt ELSE Str(""))
                      ELSE IF NamePresent(pAuth.privat_kunde)
                      THEN (IF CityPresent(pAuth.privat_kunde)
                            THEN pAuth.privat_kunde.stadt ELSE Str(""))
                      ELSE Str("")

C12_Witness ==
  /\ pPc = "done"
  /\ pAdapter = "arbeitsBlaetter"
  /\ ~NamePresent(pAuth.einrichtung) /\ CityPresent(pAuth.einrichtung)
  /\ NamePresent(pAuth.privat_kunde) /\ CityPresent(pAuth.privat_kunde)
  /\ pOut.company = Str("Familie Muster")
  /\ pOut.stadt = Str("Bonn")

(***************************************************************************)
(* SpecAge: calculateAge applied to drawn birthdates under a drawn clock   *)
(***************************************************************************)
MaxTodayYears == 2

TodayYears == 2024..(2024 + MaxTodayYears - 1)

BirthYears == {2018, 2023, 2024}

DaySet == {1, 2, 14, 15, 16, 28, 29, 30, 31}

\* the clock shows a day of the calendar
Todays ==
  {c \in [y : TodayYears, m : 1..12, d : DaySet] : c.d <= DaysInMonth(c.y, c.m)}

Pad2(n) == IF n < 10 THEN "0" \o IntToStr(n) ELSE IntToStr(n)

\* texts and values that are no date
UnparseableBirthdates ==
  {Str("abc"), Str("unbekannt"), Str("ab/cd/efgh"), Str("15/xx/2018"),
   Str("ab/cd"), Num(20180315), Bool(TRUE)}

RawBirthdates ==
  UnparseableBirthdates \cup {Undef, Null, Str(""), Str("2018-03-15")}

\* a birthdate is drawn as day, month, year (written DD/MM/YYYY, the day may
\* exceed the month's length) or as a raw value
BirthInputs ==
  [kind : {"dmy"}, y : BirthYears, m : 1..12, d : DaySet, v : {Undef}]
  \cup [kind : {"raw"}, y : {0}, m : {0}, d : {0}, v : RawBirthdates]

\* the value handed to calculateAge
BirthdateValue(b) ==
  IF b.kind = "dmy"
  THEN Str(Pad2(b.d) \o "/" \o Pad2(b.m) \o "/" \o IntToStr(b.y))
  ELSE b.v

InitAge ==
  /\ today \in Todays
  /\ birthIn \in BirthInputs
  /\ ageResult = Undef
  /\ agePc = "ready"
  /\ ProcIdle
  /\ PipeIdle

CallCalculateAge ==
  /\ agePc = "ready"
  /\ ageResult' = calculateAge(BirthdateValue(birthIn))
  /\ agePc' = "done"
  /\ UNCHANGED <<today, birthIn, procVars, pipeVars>>

NextAge == CallCalculateAge

SpecAge == InitAge /\ [][NextAge]_vars

\* a DD/MM/YYYY birthdate of the calendar that is not after the clock's day
ValidPastBirth ==
  /\ birthIn.kind = "dmy"
  /\ birthIn.d <= DaysInMonth(birthIn.y, birthIn.m)
  /\ \/ birthIn.y < today.y
     \/ birthIn.y = today.y /\ birthIn.m < today.m
     \/ birthIn.y = today.y /\ birthIn.m = today.m /\ birthIn.d <= today.d

\* whole months from the birthdate to the clock's day
MonthsLived ==
  12 * (today.y - birthIn.y) + (today.m - birthIn.m)
    - (IF today.d < birthIn.d THEN 1 ELSE 0)

\* C9: for a valid DD/MM/YYYY birthdate not after the current date
\* calculateAge returns "Y,M" with Y >= 0, 0 <= M <= 11 and 12*Y + M the whole
\* months lived; 15/03/2018 on 2024-06-01 gives "6,2"
C9_AgeYearsMonths ==
  (agePc = "done" /\ ValidPastBirth) =>
    /\ MonthsLived >= 0
    /\ ageResult = Str(IntToStr(MonthsLived \div 12) \o ","
                       \o IntToStr(MonthsLived % 12))
    /\ (today = [y |-> 2024, m |-> 6, d |-> 1]
          /\ BirthdateValue(birthIn) = Str("15/03/2018"))
        => ageResult = Str("6,2")

C9_Witness ==
  /\ agePc = "done"
  /\ today = [y |-> 2024, m |-> 6, d |-> 1]
  /\ BirthdateValue(birthIn) = Str("15/03/2018")
  /\ ValidPastBirth
  /\ ageResult = Str("6,2")

\* C10: a non-empty birthdate that is no date makes calculateAge return
\* exactly "0,0"
C10_UnparseableGivesZero ==
  (agePc = "done" /\ birthIn.kind = "raw" /\ birthIn.v \in UnparseableBirthdates)
    => ageResult = Str("0,0")

\* the matching threshold of level n that sorting by level puts first, as a
\* list of at most one entry
FirstOfLevel(n) ==
  LET at == {i \in Matching : SessionThresholds[i].level = Num(n)} IN
  IF at = {} THEN <<>>
  ELSE <<SessionThresholds[CHOOSE i \in at : \A j \in at : i <= j]>>

\* the number a bound is to be: the entry's own when the entry is there and
\* its bound converts to a number, else the default
BoundOrDefault(entry, bound, default) ==
  IF entry = <<>> THEN Num(default)
  ELSE IF bound = Undef \/ ToNumber(bound) = NaN THEN Num(default)
  ELSE ToNumber(bound)

\* C18: with six or more matching thresholds min is the number of level 1's
\* min, or 0 when level 1 is absent or its min is missing or no number; max
\* is the number of level 6's max, or 13 likewise; both are numbers, never
\* NaN; submin = min and submax = max
C18_MinMaxDerivation ==
  (ScoringDone /\ Cardinality(Matching) >= 6) =>
    LET level1 == FirstOfLevel(1)
        level6 == FirstOfLevel(6)
    IN /\ pOut.min = BoundOrDefault(level1, IF level1 = <<>> THEN Undef
                                            ELSE level1[1].min, 0)
       /\ pOut.max = BoundOrDefault(level6, IF level6 = <<>> THEN Undef
                                            ELSE level6[1].max, 13)
       /\ pOut.min.t = "number" /\ pOut.max.t = "number"
       /\ pOut.submin = pOut.min /\ pOut.submax = pOut.max

\* C19: ranges is empty or has six entries, the n-th being {start:
\* Number(min) || 0, end: Number(max) || 0} of the threshold of level n, also
\* for a category with more than six matching entries or repeated levels
C19_RangesShape ==
  ScoringDone =>
    \/ pOut.ranges = <<>>
    \/ /\ Len(pOut.ranges) = 6
       /\ \A n \in 1..6 :
            /\ FirstOfLevel(n) # <<>>
            /\ pOut.ranges[n] = RangeOf(FirstOfLevel(n)[1])

\* the score field of the raw result, undefined when there is no result
RawScore == IF pTest.present THEN pTest.score ELSE Undef

\* the raw score is absent, null or converts to no number
NoNumberScore ==
  RawScore = Undef \/ RawScore = Null \/ ToNumber(RawScore) = NaN

\* the score C20 has the classifier use
CoercedScore == IF NoNumberScore THEN 0 ELSE ToNumber(RawScore).n

\* the places of the matching thresholds whose band holds the coerced score
CoercedHolders ==
  {i \in Matching :
     /\ NumberOrZero(SessionThresholds[i].min).n <= CoercedScore
     /\ CoercedScore <= NumberOrZero(SessionThresholds[i].max).n}

\* the text of the first of them by level, then by place; '' without one
CoercedAssessment ==
  IF CoercedHolders = {} THEN Str("")
  ELSE LET first == CHOOSE i \in CoercedHolders : \A j \in CoercedHolders :
                      \/ SessionThresholds[i].level.n < SessionThresholds[j].level.n
                      \/ /\ SessionThresholds[i].level.n = SessionThresholds[j].level.n
                         /\ i <= j
       IN IF Truthy(SessionThresholds[first].description2)
          THEN SessionThresholds[first].description2 ELSE Str("")

\* C20: an absent, null or non-numeric raw score is classified as 0 and the
\* record's score is 0; a numeric raw score is classified by its number
C20_ScoreCoercion ==
  ScoringDone =>
    /\ NoNumberScore => pOut.score = Num(0)
    /\ Cardinality(Matching) >= 6 => pOut.assessment = CoercedAssessment

\* the keys of the returned record that hold a list or the result object,
\* which processData builds itself or passes on
CompoundKeys == {"testResults", "colors", "ranges", "cellColors"}

\* the demographic keys an adapter's record takes from the basic record
DemographicKeys ==
  {"name", "lang", "birthdate", "age", "since", "teacher"} \cap DOMAIN pOut

\* the fields of the basic record a demographic key is read from
SourceFields(k) ==
  CASE k = "name" -> {"Vorname", "Nachname"}
    [] k = "lang" -> {"Familiensprache"}
    [] k \in {"birthdate", "age"} -> {"GeburtsDatum"}
    [] k = "since" -> {"InDEseit"}
    [] k = "teacher" -> {"authuser_name"}

\* C21: no field of the record processData returns is undefined, and a
\* demographic field whose source fields are all missing is ''
C21_FullyPopulated ==
  pPc = "done" =>
    /\ \A k \in DOMAIN pOut \ CompoundKeys : pOut[k] # Undef
    /\ \A k \in DemographicKeys :
         SourceFields(k) \cap DOMAIN pApi = {} => pOut[k] = Str("")

\* the label and sub-band keys
LabelKeys ==
  {"label1", "label2", "label3", "label4", "subsplit", "submin", "submax",
   "subgray", "subgreen"}

\* C22: the record of processData and the record of getFallbackData of every
\* adapter hold all label and sub-band keys
C22_LabelKeysPresent ==
  /\ LabelKeys \subseteq DOMAIN getFallbackData(pAdapter)
  /\ pPc = "done" => LabelKeys \subseteq DOMAIN pOut

\* the fields of the record that are computed from the session
SessionKeys == {"min", "max", "ranges", "colors", "assessment"}

InitService ==
  /\ today = [y |-> 2024, m |-> 6, d |-> 1]
  /\ pAdapter = "service"
  /\ pApi \in ServiceApiInputs
  /\ pAuth \in {NoAuth, [NoAuth EXCEPT !.present = TRUE, !.einrichtung = Institution]}
  /\ pTest = NoTestResults
  /\ pOut = <<>>
  /\ pPc = "ready"
  /\ AgeIdle
  /\ PipeIdle

CallProcessApiData ==
  /\ pPc = "ready"
  /\ pOut' = processApiData(pApi, pAuth)
  /\ pPc' = "done"
  /\ UNCHANGED <<today, ageVars, pAdapter, pApi, pAuth, pTest, pipeVars>>

NextService == CallProcessApiData

SpecService == InitService /\ [][NextService]_vars

\* v is a list with the places and entries of the list `expected`, and is
\* that list
SameList(v, expected) ==
  /\ v \in [DOMAIN expected -> {expected[i] : i \in DOMAIN expected}]
  /\ v = expected

\* C27: in the record of processApiData min, max, score, subsplit, submin
\* and submax are numbers, colors and ranges are the parsed or default
\* lists, and name, company and the labels are the normalized values; a raw
\* field of the same name does not replace them
C27_GenericNormalized ==
  pPc = "done" =>
    /\ \A k \in {"min", "max", "score", "subsplit", "submin", "submax"} :
         pOut[k].t = "number"
    /\ SameList(pOut.colors, NormalizedFields(pApi, pAuth).colors)
    /\ SameList(pOut.ranges, NormalizedFields(pApi, pAuth).ranges)
    /\ \A k \in {"name", "company", "label1", "label2", "label3", "label4"} :
         pOut[k] = NormalizedFields(pApi, pAuth)[k]

====
